---- MODULE Spec2Model ----
(***************************************************************************)
(* A model of snakefmt/parser/syntax.py: the block header parser (Syntax), *)
(* the keyword-block tracker (KeywordSyntax), the parameter accumulator    *)
(* (Parameter) and the parameter-list parsers (ParameterSyntax,            *)
(* SingleParam, NoKeywordParamList).                                       *)
(*                                                                         *)
(* One parser instance `self` works on one forward-only token cursor.  The *)
(* tokens the cursor yields are inputs: every pull chooses the next token  *)
(* (or exhaustion) and `consumed` records what has been pulled so far.     *)
(* Text (a parameter's value and key, the tracker's buffer) is a sequence  *)
(* of pieces, each piece the text of one token or an inserted separator.   *)
(***************************************************************************)
EXTENDS Integers, Sequences, FiniteSets, TLC

VARIABLES
    kind,               \* the class whose constructor is called
    pc,                 \* position: "new", "parse_params", "ready", "get_next_queriable", "done", "error"
    error,              \* the exception that ended the run, NoError if none
    snakefile,          \* TRUE iff a token cursor was passed to the constructor
    exhausted,          \* the cursor has signalled StopIteration
    consumed,           \* tokens pulled from the cursor so far, in order
    keyword_name,       \* Syntax.keyword_name
    target_indent,      \* Syntax.target_indent
    cur_indent,         \* Syntax.cur_indent
    token,              \* Syntax.token (NoToken while the attribute is unset)
    processed_keywords, \* KeywordSyntax.processed_keywords
    incident_context,   \* the parent block handed to KeywordSyntax.__init__
    comment,            \* KeywordSyntax.comment
    queriable,          \* KeywordSyntax.queriable
    status,             \* the Status last returned by get_next_queriable
    buffer,             \* get_next_queriable's local buffer
    newline,            \* get_next_queriable's local newline
    call,               \* the operation last invoked on self, with its arguments
    positional_params,  \* ParameterSyntax.positional_params
    keyword_params,     \* ParameterSyntax.keyword_params
    eof,                \* ParameterSyntax.eof
    found_newline,      \* ParameterSyntax.found_newline
    in_brackets,        \* ParameterSyntax.in_brackets
    cur_param           \* parse_params' local cur_param

vars == <<kind, pc, error, snakefile, exhausted, consumed, keyword_name,
          target_indent, cur_indent, token, processed_keywords,
          incident_context, comment, queriable, status, buffer, newline, call,
          positional_params, keyword_params, eof, found_newline, in_brackets,
          cur_param>>

----------------------------------------------------------------------------
(* Bounds of the model.                                                    *)

\* tokens a parameter-list parse may pull (the worked examples may run longer)
MaxTokens == 5
\* tokens a keyword-block tracker may pull
MaxKwTokens == 5
\* largest target_indent a parser is constructed with
MaxIndent == 1

----------------------------------------------------------------------------
(* Tokens: tokenize's type tag and the token's text.                       *)

Tok(t, s) == [type |-> t, string |-> s]

NoToken == Tok("UNSET", "")

COLON     == Tok("OP", ":")
EQUAL     == Tok("OP", "=")
COMMA     == Tok("OP", ",")
LPAR      == Tok("OP", "(")
RPAR      == Tok("OP", ")")
NEWLINE   == Tok("NEWLINE", "\n")
NL        == Tok("NL", "\n")
INDENT    == Tok("INDENT", "\t")
DEDENT    == Tok("DEDENT", "")
ENDMARKER == Tok("ENDMARKER", "")
COMMENT   == Tok("COMMENT", "#c")
STR       == Tok("STRING", "'s'")
Name(s)   == Tok("NAME", s)
Number(s) == Tok("NUMBER", s)

\* str.isspace() on the token texts of the model
isspace(s) == s \in {"\n", "\t", " "}

accept_python_code == {"run", "onstart", "onsuccess", "onerror"}
possibly_named_keywords == {"rule", "checkpoint"}

is_colon(t) == t.type = "OP" /\ t.string = ":"

brack_open(t) == t.type = "OP" /\ t.string = "("

brack_close(t) == t.type = "OP" /\ t.string = ")"

is_equal_sign(t) == t.type = "OP" /\ t.string = "="

is_comma_sign(t) == t.type = "OP" /\ t.string = ","

not_to_ignore(t) ==
    /\ Len(t.string) > 0
    /\ ~isspace(t.string)
    /\ ~(t.type = "COMMENT")

----------------------------------------------------------------------------
(* Exceptions.                                                             *)

Raise(type, msg) == [type |-> type, msg |-> msg]

NoError == Raise("None", "")

----------------------------------------------------------------------------
(* The instance: the attributes of self as one record, and its write-back. *)

Self ==
    [keyword_name |-> keyword_name, target_indent |-> target_indent,
     cur_indent |-> cur_indent, token |-> token,
     processed_keywords |-> processed_keywords, comment |-> comment,
     queriable |-> queriable, positional_params |-> positional_params,
     keyword_params |-> keyword_params, eof |-> eof,
     found_newline |-> found_newline, in_brackets |-> in_brackets]

Store(s) ==
    /\ keyword_name' = s.keyword_name
    /\ target_indent' = s.target_indent
    /\ cur_indent' = s.cur_indent
    /\ token' = s.token
    /\ processed_keywords' = s.processed_keywords
    /\ comment' = s.comment
    /\ queriable' = s.queriable
    /\ positional_params' = s.positional_params
    /\ keyword_params' = s.keyword_params
    /\ eof' = s.eof
    /\ found_newline' = s.found_newline
    /\ in_brackets' = s.in_brackets

Max(a, b) == IF a >= b THEN a ELSE b

----------------------------------------------------------------------------
(* Syntax.__init__: the block header parser.  `toks` is what the cursor    *)
(* would yield next; a pull beyond its end is StopIteration.               *)

\* Syntax.__init__ without the colon check after a name
Syntax__init__NoCheckAfterName(self, kw, ti, has_snakefile, toks) ==
    LET s0 == [self EXCEPT !.keyword_name = <<kw>>, !.target_indent = ti,
                           !.cur_indent = Max(ti - 1, 0)]
        Out(s, used, err) == [self |-> s, used |-> used, error |-> err]
    IN
    IF ~has_snakefile THEN Out(s0, 0, NoError)
    ELSE IF Len(toks) < 1 THEN Out(s0, 0, Raise("StopIteration", ""))
    ELSE
      LET s1 == [s0 EXCEPT !.token = toks[1]] IN
      IF is_colon(s1.token) THEN Out(s1, 1, NoError)
      ELSE IF kw \in possibly_named_keywords THEN
        IF s1.token.type # "NAME"
        THEN Out(s1, 1, Raise("NamedKeywordError", "Invalid name"))
        ELSE
          LET s2 == [s1 EXCEPT !.keyword_name = <<kw, " ", s1.token.string>>] IN
          IF Len(toks) < 2 THEN Out(s2, 1, Raise("StopIteration", ""))
          ELSE Out([s2 EXCEPT !.token = toks[2]], 2, NoError)
      ELSE Out(s1, 1, Raise("SyntaxError", "Colon expected"))

Syntax__init__(self, kw, ti, has_snakefile, toks) ==
    LET s0 == [self EXCEPT !.keyword_name = <<kw>>, !.target_indent = ti,
                           !.cur_indent = Max(ti - 1, 0)]
        Out(s, used, err) == [self |-> s, used |-> used, error |-> err]
    IN
    IF ~has_snakefile THEN Out(s0, 0, NoError)
    ELSE IF Len(toks) < 1 THEN Out(s0, 0, Raise("StopIteration", ""))
    ELSE
      LET s1 == [s0 EXCEPT !.token = toks[1]] IN
      IF is_colon(s1.token) THEN Out(s1, 1, NoError)
      ELSE IF kw \in possibly_named_keywords THEN
        IF s1.token.type # "NAME"
        THEN Out(s1, 1, Raise("NamedKeywordError", "Invalid name"))
        ELSE
          LET s2 == [s1 EXCEPT !.keyword_name = <<kw, " ", s1.token.string>>] IN
          IF Len(toks) < 2 THEN Out(s2, 1, Raise("StopIteration", ""))
          ELSE
            LET s3 == [s2 EXCEPT !.token = toks[2]] IN
            IF is_colon(s3.token) THEN Out(s3, 2, NoError)
            ELSE Out(s3, 2, Raise("SyntaxError", "Colon expected"))
      ELSE Out(s1, 1, Raise("SyntaxError", "Colon expected"))

----------------------------------------------------------------------------
(* KeywordSyntax: the keyword-block tracker.                               *)

\* add_processed_keyword that ignores a duplicate instead of raising
add_processed_keyword_Silent(pk, t, keyword) ==
    LET k == IF keyword = <<>> THEN <<t.string>> ELSE keyword IN
    [processed_keywords |-> pk \cup {k}, error |-> NoError]

\* add_processed_keyword on the block whose processed_keywords is `pk`.
\* A keyword is a text; the default "" is the empty text.
add_processed_keyword(pk, t, keyword) ==
    LET k == IF keyword = <<>> THEN <<t.string>> ELSE keyword IN
    IF k \in pk
    THEN [processed_keywords |-> pk,
          error |-> Raise("DuplicateKeyWordError", "specified twice")]
    ELSE [processed_keywords |-> pk \cup {k}, error |-> NoError]

\* The line_nb property reads self.token, an attribute Syntax.__init__ sets
\* only when it is given a cursor.
line_nb(self) ==
    IF self.token = NoToken THEN Raise("AttributeError", "token") ELSE NoError

check_empty(self) ==
    IF Cardinality(self.processed_keywords) = 0
    THEN IF line_nb(self) # NoError THEN line_nb(self)
         ELSE Raise("EmptyContextError", "has no keywords attached to it")
    ELSE NoError

\* KeywordSyntax.__init__.  `incident` is the parent block (present or not,
\* with its processed_keywords); `toks` is what the cursor would yield.
KeywordSyntax__init__(self, kw, ti, incident, has_snakefile, toks) ==
    LET h == Syntax__init__(self, kw, ti, has_snakefile, toks)
        Out(s, inc, used, err) ==
            [self |-> s, incident |-> inc, used |-> used, error |-> err]
        s1 == [h.self EXCEPT !.processed_keywords = {}, !.comment = <<>>,
                             !.queriable = TRUE]
        reg == add_processed_keyword(incident.processed_keywords, s1.token,
                                     s1.keyword_name)
        inc1 == [incident EXCEPT !.processed_keywords = reg.processed_keywords]
        n == h.used
    IN
    IF h.error # NoError THEN Out(h.self, incident, n, h.error)
    ELSE IF ~incident.present THEN Out(s1, incident, n, NoError)
    ELSE IF s1.token = NoToken
    THEN Out(s1, incident, n, Raise("AttributeError", "token"))
    ELSE IF reg.error # NoError THEN Out(s1, incident, n, reg.error)
    ELSE IF Len(toks) < n + 1
    THEN Out(s1, inc1, n, Raise("StopIteration", ""))
    ELSE
      LET s2 == [s1 EXCEPT !.token = toks[n + 1]] IN
      IF s2.token.type = "COMMENT"
      THEN LET s3 == [s2 EXCEPT !.comment = <<" ", s2.token.string>>] IN
           IF Len(toks) < n + 2
           THEN Out(s3, inc1, n + 1, Raise("StopIteration", ""))
           ELSE LET s4 == [s3 EXCEPT !.token = toks[n + 2]] IN
                IF s4.token.type # "NEWLINE"
                THEN Out(s4, inc1, n + 2,
                         Raise("SyntaxError", "Newline expected"))
                ELSE Out(s4, inc1, n + 2, NoError)
      ELSE IF s2.token.type # "NEWLINE"
      THEN Out(s2, inc1, n + 1, Raise("SyntaxError", "Newline expected"))
      ELSE Out(s2, inc1, n + 1, NoError)

\* text += piece, where adding the empty text changes nothing
Concat(text, piece) == IF piece = "" THEN text ELSE Append(text, piece)

\* "\t" * n appended to the text
RECURSIVE Tabs(_, _)
Tabs(text, n) == IF n <= 0 THEN text ELSE Tabs(Append(text, "\t"), n - 1)

Status(t, indent, buf, e) ==
    [token |-> t, indent |-> indent, buffer |-> buf, eof |-> e]

\* get_next_queriable that leaves queriable set when it yields a name
get_next_queriable_StaysQueriable(self, buf, nl, t) ==
    LET Out(s, b, n, ret, st) ==
            [self |-> s, buffer |-> b, newline |-> n, returns |-> ret,
             status |-> st]
        none == Status(NoToken, 0, <<>>, FALSE)
    IN
    IF t.type = "NAME" THEN
      LET b1 == IF nl THEN Tabs(buf, self.cur_indent) ELSE buf IN
      IF self.cur_indent <= self.target_indent /\ self.queriable
      THEN Out(self, b1, FALSE, TRUE,
               Status(t, self.cur_indent, b1, FALSE))
      ELSE Out(self, Concat(Append(b1, " "), t.string), FALSE, FALSE, none)
    ELSE IF t.type = "INDENT"
    THEN Out([self EXCEPT !.cur_indent = @ + 1], buf, nl, FALSE, none)
    ELSE IF t.type = "DEDENT"
    THEN Out(IF self.cur_indent > 0
             THEN [self EXCEPT !.cur_indent = @ - 1] ELSE self,
             Concat(buf, t.string), nl, FALSE, none)
    ELSE IF t.type = "ENDMARKER"
    THEN Out(self, buf, nl, TRUE, Status(t, self.cur_indent, buf, TRUE))
    ELSE IF t.type = "NEWLINE"
    THEN Out([self EXCEPT !.queriable = TRUE], Concat(buf, t.string), TRUE,
             FALSE, none)
    ELSE Out(self, Concat(buf, t.string), nl, FALSE, none)

\* get_next_queriable that yields only below the target depth
get_next_queriable_BelowTarget(self, buf, nl, t) ==
    LET Out(s, b, n, ret, st) ==
            [self |-> s, buffer |-> b, newline |-> n, returns |-> ret,
             status |-> st]
        none == Status(NoToken, 0, <<>>, FALSE)
    IN
    IF t.type = "NAME" THEN
      LET b1 == IF nl THEN Tabs(buf, self.cur_indent) ELSE buf IN
      IF self.cur_indent < self.target_indent /\ self.queriable
      THEN Out([self EXCEPT !.queriable = FALSE], b1, FALSE, TRUE,
               Status(t, self.cur_indent, b1, FALSE))
      ELSE Out(self, Concat(Append(b1, " "), t.string), FALSE, FALSE, none)
    ELSE IF t.type = "INDENT"
    THEN Out([self EXCEPT !.cur_indent = @ + 1], buf, nl, FALSE, none)
    ELSE IF t.type = "DEDENT"
    THEN Out(IF self.cur_indent > 0
             THEN [self EXCEPT !.cur_indent = @ - 1] ELSE self,
             Concat(buf, t.string), nl, FALSE, none)
    ELSE IF t.type = "ENDMARKER"
    THEN Out(self, buf, nl, TRUE, Status(t, self.cur_indent, buf, TRUE))
    ELSE IF t.type = "NEWLINE"
    THEN Out([self EXCEPT !.queriable = TRUE], Concat(buf, t.string), TRUE,
             FALSE, none)
    ELSE Out(self, Concat(buf, t.string), nl, FALSE, none)

\* One iteration of get_next_queriable's loop on the pulled token t:
\* self and the locals after it, and the Status returned if it returns.
get_next_queriable(self, buf, nl, t) ==
    LET Out(s, b, n, ret, st) ==
            [self |-> s, buffer |-> b, newline |-> n, returns |-> ret,
             status |-> st]
        none == Status(NoToken, 0, <<>>, FALSE)
    IN
    IF t.type = "NAME" THEN
      LET b1 == IF nl THEN Tabs(buf, self.cur_indent) ELSE buf IN
      IF self.cur_indent <= self.target_indent /\ self.queriable
      THEN Out([self EXCEPT !.queriable = FALSE], b1, FALSE, TRUE,
               Status(t, self.cur_indent, b1, FALSE))
      ELSE Out(self, Concat(Append(b1, " "), t.string), FALSE, FALSE, none)
    ELSE IF t.type = "INDENT"
    THEN Out([self EXCEPT !.cur_indent = @ + 1], buf, nl, FALSE, none)
    ELSE IF t.type = "DEDENT"
    THEN Out(IF self.cur_indent > 0
             THEN [self EXCEPT !.cur_indent = @ - 1] ELSE self,
             Concat(buf, t.string), nl, FALSE, none)
    ELSE IF t.type = "ENDMARKER"
    THEN Out(self, buf, nl, TRUE, Status(t, self.cur_indent, buf, TRUE))
    ELSE IF t.type = "NEWLINE"
    THEN Out([self EXCEPT !.queriable = TRUE], Concat(buf, t.string), TRUE,
             FALSE, none)
    ELSE Out(self, Concat(buf, t.string), nl, FALSE, none)

----------------------------------------------------------------------------
(* Parameter: the accumulator of one parameter.                            *)

Parameter ==
    [key |-> <<>>, value |-> <<>>, comments |-> <<>>, is_string |-> TRUE]

has_key(p) == Len(p.key) > 0

has_value(p) == Len(p.value) > 0

add_elem(p, t) ==
    LET p1 == IF t.type # "STRING" THEN [p EXCEPT !.is_string = FALSE] ELSE p
        p2 == IF Len(p1.value) > 0 /\ t.type = "NAME"
              THEN [p1 EXCEPT !.value = Append(@, " ")]
              ELSE p1
    IN [p2 EXCEPT !.value = Append(@, t.string)]

\* The texts Python's grammar reads as a name.
NameTexts == {"a", "b", "c", "f", "x", "y", "input"}

\* An assignment target over the pieces of the model, by recursive descent:
\*   target ::= NAME | "(" ")" | "(" target ("," target)* [","] ")"
\* ParseTarget and ParseTargets return the index after what they read (0 when
\* the text is no target) and the shape read: a "name" (possibly in
\* parentheses) or a "tuple".
Parsed(next, shape) == [next |-> next, shape |-> shape]

RECURSIVE ParseTarget(_, _), ParseTargets(_, _, _, _, _)
ParseTarget(ws, i) ==
    IF i > Len(ws) THEN Parsed(0, "none")
    ELSE IF ws[i] \in NameTexts THEN Parsed(i + 1, "name")
    ELSE IF ws[i] = "(" THEN ParseTargets(ws, i + 1, 0, "none", FALSE)
    ELSE Parsed(0, "none")

ParseTargets(ws, i, n, shape, comma) ==
    IF i > Len(ws) THEN Parsed(0, "none")
    ELSE IF ws[i] = ")"
    THEN Parsed(i + 1, IF n = 1 /\ ~comma THEN shape ELSE "tuple")
    ELSE
      LET item == ParseTarget(ws, i) IN
      IF item.next = 0 \/ item.next > Len(ws) THEN Parsed(0, "none")
      ELSE IF ws[item.next] = ","
      THEN ParseTargets(ws, item.next + 1, n + 1, item.shape, TRUE)
      ELSE IF ws[item.next] = ")"
      THEN ParseTargets(ws, item.next, n + 1, item.shape, comma)
      ELSE Parsed(0, "none")

TargetShape(text) ==
    LET ws == SelectSeq(text, LAMBDA piece : ~isspace(piece))
        r == ParseTarget(ws, 1)
    IN IF r.next = Len(ws) + 1 THEN r.shape ELSE "invalid"

\* exec(f"{value} = 0"): a SyntaxError when the text is no assignment target,
\* a TypeError when it is a tuple display (0 cannot be unpacked), else fine.
exec_assign(value) ==
    CASE TargetShape(value) = "name" -> "ok"
      [] TargetShape(value) = "tuple" -> "TypeError"
      [] OTHER -> "SyntaxError"

to_key_val_mode(p, t) ==
    IF ~has_value(p)
    THEN [param |-> p,
          error |-> Raise("InvalidParameterSyntax", "Operator = used with no preceding key")]
    ELSE IF exec_assign(p.value) = "SyntaxError"
    THEN [param |-> p, error |-> Raise("InvalidParameterSyntax", "Invalid key")]
    ELSE IF exec_assign(p.value) = "TypeError"
    THEN [param |-> p, error |-> Raise("TypeError", "")]
    ELSE [param |-> [p EXCEPT !.key = p.value, !.value = <<>>, !.is_string = TRUE],
          error |-> NoError]

----------------------------------------------------------------------------
(* ParameterSyntax: the parameter-list parser.                             *)

\* The reserved words of the enclosing vocabulary.
Vocabulary == {"input"}

\* incident_vocab.recognises(word)
recognises(word) == \E w \in Vocabulary : word = <<w>>

\* len(text.split()): the number of whitespace-separated units of a text
RECURSIVE SplitLen(_)
SplitLen(text) ==
    IF text = <<>> THEN 0
    ELSE IF isspace(Head(text)) THEN SplitLen(Tail(text))
    ELSE IF Len(text) > 1 /\ ~isspace(text[2]) THEN SplitLen(Tail(text))
    ELSE 1 + SplitLen(Tail(text))

num_params(self) == Len(self.keyword_params) + Len(self.positional_params)

\* flush_param that stores the newest parameter first
flush_param_Prepend(self, parameter, skip_empty) ==
    IF ~has_value(parameter) /\ skip_empty THEN self
    ELSE IF has_key(parameter)
    THEN [self EXCEPT !.keyword_params = <<parameter>> \o @]
    ELSE [self EXCEPT !.positional_params = <<parameter>> \o @]

\* flush_param that stores every parameter as positional
flush_param_AllPositional(self, parameter, skip_empty) ==
    IF ~has_value(parameter) /\ skip_empty THEN self
    ELSE [self EXCEPT !.positional_params = Append(@, parameter)]

\* flush_param that drops a parameter with no value on every flush
flush_param_SkipEmpty(self, parameter, skip_empty) ==
    IF ~has_value(parameter) THEN self
    ELSE IF has_key(parameter)
    THEN [self EXCEPT !.keyword_params = Append(@, parameter)]
    ELSE [self EXCEPT !.positional_params = Append(@, parameter)]

flush_param(self, parameter, skip_empty) ==
    IF ~has_value(parameter) /\ skip_empty THEN self
    ELSE IF has_key(parameter)
    THEN [self EXCEPT !.keyword_params = Append(@, parameter)]
    ELSE [self EXCEPT !.positional_params = Append(@, parameter)]

\* check_exit that also stops at the target depth
check_exit_AtTarget(self, param) ==
    IF /\ self.found_newline
       /\ not_to_ignore(self.token)
       /\ self.cur_indent <= self.target_indent
    THEN [exit |-> TRUE, self |-> flush_param(self, param, TRUE)]
    ELSE [exit |-> FALSE, self |-> self]

\* check_exit returns whether to stop, with self after its flush
check_exit(self, param) ==
    IF /\ self.found_newline
       /\ not_to_ignore(self.token)
       /\ self.cur_indent < self.target_indent
    THEN [exit |-> TRUE, self |-> flush_param(self, param, TRUE)]
    ELSE [exit |-> FALSE, self |-> self]

\* process_token without the check for an over-indented keyword
process_token_NoVocabulary(self, param) ==
    LET t_t == self.token.type
        Out(s, p, err) == [self |-> s, cur_param |-> p, error |-> err]
    IN
    IF t_t = "INDENT"
    THEN Out([self EXCEPT !.cur_indent = @ + 1], param, NoError)
    ELSE IF t_t = "DEDENT"
    THEN Out([self EXCEPT !.cur_indent = @ - 1], param, NoError)
    ELSE IF t_t = "NEWLINE" \/ t_t = "NL"
    THEN Out([self EXCEPT !.found_newline = TRUE], param, NoError)
    ELSE IF t_t = "COMMENT"
    THEN Out(self, [param EXCEPT !.comments = Append(@, self.token.string)], NoError)
    ELSE IF is_equal_sign(self.token) /\ ~self.in_brackets
    THEN LET r == to_key_val_mode(param, self.token)
         IN Out(self, r.param, r.error)
    ELSE IF is_comma_sign(self.token) /\ ~self.in_brackets
    THEN Out(flush_param(self, param, FALSE), Parameter, NoError)
    ELSE IF t_t # "ENDMARKER"
    THEN LET s1 == IF brack_open(self.token)
                   THEN [self EXCEPT !.in_brackets = TRUE] ELSE self
             s2 == IF brack_close(self.token)
                   THEN [s1 EXCEPT !.in_brackets = FALSE] ELSE s1
         IN Out(s2, add_elem(param, self.token), NoError)
    ELSE Out(self, param, NoError)

process_token(self, param) ==
    LET t_t == self.token.type
        Out(s, p, err) == [self |-> s, cur_param |-> p, error |-> err]
    IN
    IF t_t = "INDENT"
    THEN Out([self EXCEPT !.cur_indent = @ + 1], param, NoError)
    ELSE IF t_t = "DEDENT"
    THEN Out([self EXCEPT !.cur_indent = @ - 1], param, NoError)
    ELSE IF t_t = "NEWLINE" \/ t_t = "NL"
    THEN Out([self EXCEPT !.found_newline = TRUE], param, NoError)
    ELSE IF t_t = "COMMENT"
    THEN Out(self, [param EXCEPT !.comments = Append(@, self.token.string)], NoError)
    ELSE IF is_equal_sign(self.token) /\ ~self.in_brackets
    THEN LET r == to_key_val_mode(param, self.token)
         IN Out(self, r.param, r.error)
    ELSE IF is_comma_sign(self.token) /\ ~self.in_brackets
    THEN Out(flush_param(self, param, FALSE), Parameter, NoError)
    ELSE IF t_t # "ENDMARKER"
    THEN LET s1 == IF brack_open(self.token)
                   THEN [self EXCEPT !.in_brackets = TRUE] ELSE self
             s2 == IF brack_close(self.token)
                   THEN [s1 EXCEPT !.in_brackets = FALSE] ELSE s1
         IN IF SplitLen(param.value) = 1 /\ recognises(param.value)
            THEN Out(s2, param,
                     Raise("InvalidParameterSyntax", "Over-indented recognised keyword found"))
            ELSE Out(s2, add_elem(param, self.token), NoError)
    ELSE Out(self, param, NoError)

\* the end of parse_params counting the positional parameters only
parse_params_end_PositionalOnly(self) ==
    IF Len(self.positional_params) = 0 THEN Raise("NoParametersError", "")
    ELSE NoError

\* The end of parse_params, after its loop
parse_params_end(self) ==
    IF num_params(self) = 0 THEN Raise("NoParametersError", "") ELSE NoError

\* SingleParam.__init__ with its two checks in the other order
SingleParam__init__KeywordFirst(self) ==
    IF ~(Len(self.keyword_params) = 0) THEN Raise("InvalidParameter", "")
    ELSE IF num_params(self) > 1 THEN Raise("TooManyParameters", "")
    ELSE NoError

\* SingleParam.__init__ after ParameterSyntax.__init__ has returned
SingleParam__init__(self) ==
    IF num_params(self) > 1 THEN Raise("TooManyParameters", "")
    ELSE IF ~(Len(self.keyword_params) = 0) THEN Raise("InvalidParameter", "")
    ELSE NoError

\* NoKeywordParamList.__init__ after ParameterSyntax.__init__ has returned
NoKeywordParamList__init__(self) ==
    IF Len(self.keyword_params) > 0
    THEN Raise("InvalidParameterSyntax", "does not accept key/value parameters")
    ELSE NoError

----------------------------------------------------------------------------
(* The inputs: what a cursor may yield.                                    *)

\* tokens a parameter-list cursor yields after the header
ParamTokens ==
    {EQUAL, COMMA, LPAR, RPAR, NEWLINE, INDENT, DEDENT, ENDMARKER,
     COMMENT, STR, Name("a"), Name("input")}

\* tokens a cursor yields where a header is read
HeaderTokens == ParamTokens \cup {COLON}

\* Worked examples, each a header colon and a parameter list:
\*   a, b, c        x = 1, y = 2        f(a, b), c
\* and a call whose arguments continue on the next line:  f(a,
\*                                                          b)
Examples ==
    { <<COLON, Name("a"), COMMA, Name("b"), COMMA, Name("c"), NEWLINE>>,
      <<COLON, Name("x"), EQUAL, Number("1"), COMMA, Name("y"), EQUAL,
        Number("2"), NEWLINE>>,
      <<COLON, Name("f"), LPAR, Name("a"), COMMA, Name("b"), RPAR, COMMA,
        Name("c"), NEWLINE>>,
      <<COLON, Name("f"), LPAR, Name("a"), COMMA, NL, Name("b"), RPAR,
        NEWLINE>> }

ExampleTokens == UNION {{ex[i] : i \in 1..Len(ex)} : ex \in Examples}

IsPrefix(s, t) == Len(s) <= Len(t) /\ SubSeq(t, 1, Len(s)) = s

\* May the cursor yield t after what has been consumed?  The end marker is
\* the last token of a stream.
CanPull(t) ==
    \/ /\ Len(consumed) < MaxTokens
       /\ t \in ParamTokens
       /\ consumed[Len(consumed)] # ENDMARKER
    \/ \E ex \in Examples : IsPrefix(Append(consumed, t), ex)

\* the keywords a parameter list is built for
ParamKeywords == {"input"}

ParamKinds == {"ParameterSyntax", "SingleParam", "NoKeywordParamList"}

\* token sequences of length at most n over the set S
SeqsUpTo(S, n) == UNION {[1..k -> S] : k \in 0..n}

----------------------------------------------------------------------------
(* The constructors' signatures: Python binds the arguments of a call to   *)
(* the parameters by position and raises TypeError when one is missing.    *)

ParameterSyntaxParams ==
    <<"keyword_name", "target_indent", "incident_vocab", "snakefile">>

\* the arguments each class hands to ParameterSyntax.__init__
SuperArgs(k) ==
    CASE k = "SingleParam" ->
           <<"keyword_name", "target_indent", "incident_vocab", "snakefile">>
      [] k = "NoKeywordParamList" ->
           <<"keyword_name", "target_indent", "snakefile">>
      [] OTHER ->
           <<"keyword_name", "target_indent", "incident_vocab", "snakefile">>

BindError(k) ==
    IF Len(SuperArgs(k)) < Len(ParameterSyntaxParams)
    THEN Raise("TypeError", "missing 1 required positional argument")
    ELSE NoError

\* what the constructor of class k does once parse_params' loop has ended
AfterLoop(k, self) ==
    IF parse_params_end(self) # NoError THEN parse_params_end(self)
    ELSE CASE k = "SingleParam" -> SingleParam__init__(self)
           [] k = "NoKeywordParamList" -> NoKeywordParamList__init__(self)
           [] OTHER -> NoError

----------------------------------------------------------------------------
(* Actions of a parameter-list parse.                                      *)

Ends(err) ==
    /\ error' = err
    /\ pc' = IF err = NoError THEN "done" ELSE "error"

\* ParameterSyntax.__init__ (also through SingleParam and
\* NoKeywordParamList) up to the first iteration of parse_params' loop
NewParameterSyntax ==
    /\ pc = "new"
    /\ \E k \in ParamKinds, kw \in ParamKeywords, ti \in 0..MaxIndent :
         /\ kind' = k
         /\ call' = [op |-> k, token |-> NoToken, keyword |-> <<kw>>]
         /\ snakefile' = TRUE
         /\ UNCHANGED <<incident_context, status, buffer, newline>>
         /\ IF BindError(k) # NoError
            THEN /\ Ends(BindError(k))
                 /\ UNCHANGED <<exhausted, consumed, keyword_name,
                                target_indent, cur_indent, token,
                                processed_keywords, comment, queriable,
                                positional_params, keyword_params, eof,
                                found_newline, in_brackets, cur_param>>
            ELSE \E toks \in SeqsUpTo(HeaderTokens, 2) :
                   LET r == Syntax__init__(Self, kw, ti, TRUE, toks) IN
                   /\ r.used = Len(toks)
                   /\ consumed' = toks
                   /\ exhausted' = (r.error.type = "StopIteration")
                   /\ cur_param' = Parameter
                   /\ IF r.error # NoError
                      THEN /\ Store(r.self)
                           /\ Ends(r.error)
                      ELSE /\ Store([r.self EXCEPT
                                       !.processed_keywords = {},
                                       !.positional_params = <<>>,
                                       !.keyword_params = <<>>,
                                       !.eof = FALSE,
                                       !.found_newline = FALSE,
                                       !.in_brackets = FALSE])
                           /\ pc' = "parse_params"
                           /\ error' = NoError

\* one iteration of parse_params' loop, and on leaving the loop the rest of
\* the constructor
parse_params ==
    /\ pc = "parse_params"
    /\ UNCHANGED <<kind, snakefile, incident_context, status, buffer, newline, call>>
    /\ \/ \* next(snakefile) raises StopIteration
          LET s1 == [flush_param(Self, cur_param, TRUE) EXCEPT !.eof = TRUE] IN
          /\ exhausted' = TRUE
          /\ Store(s1)
          /\ Ends(AfterLoop(kind, s1))
          /\ UNCHANGED <<consumed, cur_param>>
       \/ \E t \in ParamTokens \cup ExampleTokens :
            /\ CanPull(t)
            /\ LET s0 == [Self EXCEPT !.token = t]
                   ce == check_exit(s0, cur_param)
                   r == process_token(s0, cur_param)
               IN
               /\ consumed' = Append(consumed, t)
               /\ UNCHANGED exhausted
               /\ IF ce.exit
                  THEN /\ Store(ce.self)
                       /\ Ends(AfterLoop(kind, ce.self))
                       /\ UNCHANGED cur_param
                  ELSE /\ Store(r.self)
                       /\ cur_param' = r.cur_param
                       /\ error' = r.error
                       /\ pc' = IF r.error = NoError THEN "parse_params" ELSE "error"

----------------------------------------------------------------------------
(* Actions of a keyword-block tracker.                                     *)

\* tokens a keyword block's cursor yields
KwTokens == {COLON, NEWLINE, INDENT, DEDENT, ENDMARKER, COMMENT, Name("a")}

\* the keywords a block is built for: one nameable, one not
KwKeywords == {"rule", "run"}

\* the parent handed to the constructor: none, one with no child yet, one
\* that has registered children
Parents ==
    { [present |-> FALSE, processed_keywords |-> {}],
      [present |-> TRUE, processed_keywords |-> {}],
      [present |-> TRUE,
       processed_keywords |-> {<<"run">>, <<"rule", " ", "a">>}] }

\* the arguments of add_processed_keyword calls on self
ChildTokens == {Name("input"), Name("output")}
ChildKeywords == {<<>>, <<"input">>}

ParamVars ==
    <<positional_params, keyword_params, eof, found_newline, in_brackets,
      cur_param>>

\* KeywordSyntax(keyword_name, target_indent, incident_context, snakefile)
NewKeywordSyntax ==
    /\ pc = "new"
    /\ \E kw \in KwKeywords, ti \in 0..MaxIndent, inc \in Parents,
          has_snakefile \in BOOLEAN, toks \in SeqsUpTo(KwTokens, 4) :
         LET r == KeywordSyntax__init__(Self, kw, ti, inc, has_snakefile, toks) IN
         /\ r.used = Len(toks)
         /\ kind' = "KeywordSyntax"
         /\ call' = [op |-> "KeywordSyntax", token |-> NoToken, keyword |-> <<kw>>]
         /\ snakefile' = has_snakefile
         /\ consumed' = toks
         /\ exhausted' = (r.error.type = "StopIteration")
         /\ incident_context' = r.incident
         /\ keyword_name' = r.self.keyword_name
         /\ target_indent' = r.self.target_indent
         /\ cur_indent' = r.self.cur_indent
         /\ token' = r.self.token
         /\ processed_keywords' = r.self.processed_keywords
         /\ comment' = r.self.comment
         /\ queriable' = r.self.queriable
         /\ error' = r.error
         /\ pc' = IF r.error = NoError THEN "ready" ELSE "error"
         /\ UNCHANGED <<status, buffer, newline>>
         /\ UNCHANGED ParamVars

\* self.add_processed_keyword(token, keyword)
AddProcessedKeyword ==
    /\ pc = "ready"
    /\ \E t \in ChildTokens, keyword \in ChildKeywords :
         LET r == add_processed_keyword(processed_keywords, t, keyword) IN
         /\ call' = [op |-> "add_processed_keyword", token |-> t,
                     keyword |-> keyword]
         /\ processed_keywords' = r.processed_keywords
         /\ error' = r.error
         /\ pc' = IF r.error = NoError THEN "ready" ELSE "error"
    /\ UNCHANGED <<kind, snakefile, exhausted, consumed, keyword_name,
                   target_indent, cur_indent, token, incident_context,
                   comment, queriable, status, buffer, newline>>
    /\ UNCHANGED ParamVars

\* self.check_empty(), when the block is closed
CheckEmpty ==
    /\ pc = "ready"
    /\ call' = [op |-> "check_empty", token |-> NoToken, keyword |-> <<>>]
    /\ error' = check_empty(Self)
    /\ pc' = IF check_empty(Self) = NoError THEN "done" ELSE "error"
    /\ UNCHANGED <<kind, snakefile, exhausted, consumed, keyword_name,
                   target_indent, cur_indent, token, processed_keywords,
                   incident_context, comment, queriable, status, buffer,
                   newline>>
    /\ UNCHANGED ParamVars

\* self.get_next_queriable(snakefile) is entered
GetNextQueriable ==
    /\ pc = "ready"
    /\ snakefile
    /\ call' = [op |-> "get_next_queriable", token |-> NoToken, keyword |-> <<>>]
    /\ buffer' = <<>>
    /\ newline' = FALSE
    /\ pc' = "get_next_queriable"
    /\ UNCHANGED <<kind, error, snakefile, exhausted, consumed, keyword_name,
                   target_indent, cur_indent, token, processed_keywords,
                   incident_context, comment, queriable, status>>
    /\ UNCHANGED ParamVars

\* May the tracker's cursor yield t after what has been consumed?
CanPullKw(t) ==
    /\ Len(consumed) < MaxKwTokens
    /\ t \in KwTokens
    /\ consumed = <<>> \/ consumed[Len(consumed)] # ENDMARKER

\* one iteration of get_next_queriable's loop
GetNextQueriableLoop ==
    /\ pc = "get_next_queriable"
    /\ UNCHANGED <<kind, snakefile, call, keyword_name, target_indent, token,
                   processed_keywords, incident_context, comment>>
    /\ UNCHANGED ParamVars
    /\ \/ \* next(snakefile) raises StopIteration
          /\ exhausted' = TRUE
          /\ error' = Raise("StopIteration", "")
          /\ pc' = "error"
          /\ UNCHANGED <<consumed, cur_indent, queriable, status, buffer,
                         newline>>
       \/ \E t \in KwTokens :
            /\ CanPullKw(t)
            /\ LET r == get_next_queriable(Self, buffer, newline, t) IN
               /\ consumed' = Append(consumed, t)
               /\ cur_indent' = r.self.cur_indent
               /\ queriable' = r.self.queriable
               /\ buffer' = r.buffer
               /\ newline' = r.newline
               /\ status' = IF r.returns THEN r.status ELSE status
               /\ pc' = IF r.returns THEN "ready" ELSE "get_next_queriable"
               /\ UNCHANGED <<exhausted, error>>

Init ==
    /\ kind = "None"
    /\ pc = "new"
    /\ error = NoError
    /\ snakefile = FALSE
    /\ exhausted = FALSE
    /\ consumed = <<>>
    /\ keyword_name = <<>>
    /\ target_indent = 0
    /\ cur_indent = 0
    /\ token = NoToken
    /\ processed_keywords = {}
    /\ incident_context = [present |-> FALSE, processed_keywords |-> {}]
    /\ comment = <<>>
    /\ queriable = FALSE
    /\ status = [token |-> NoToken, indent |-> 0, buffer |-> <<>>, eof |-> FALSE]
    /\ buffer = <<>>
    /\ newline = FALSE
    /\ call = [op |-> "None", token |-> NoToken, keyword |-> <<>>]
    /\ positional_params = <<>>
    /\ keyword_params = <<>>
    /\ eof = FALSE
    /\ found_newline = FALSE
    /\ in_brackets = FALSE
    /\ cur_param = Parameter

Next ==
    \/ NewParameterSyntax
    \/ parse_params

Spec == Init /\ [][Next]_vars

NextKw ==
    \/ NewKeywordSyntax
    \/ AddProcessedKeyword
    \/ CheckEmpty
    \/ GetNextQueriable
    \/ GetNextQueriableLoop

SpecKw == Init /\ [][NextKw]_vars

----------------------------------------------------------------------------
(* Notions the properties are stated with.                                 *)

Terminal == pc \in {"done", "error"}

\* the tokens pulled after the header's colon
Body == SubSeq(consumed, 2, Len(consumed))

\* The loop of parse_params has ended: by exhaustion (eof) or by the exit
\* condition, which then still holds of the last token pulled.
ExitTaken ==
    /\ found_newline
    /\ not_to_ignore(token)
    /\ cur_indent < target_indent

LoopEnded == Terminal /\ (eof \/ ExitTaken)

NumParams == Len(positional_params) + Len(keyword_params)

\* the number of open brackets of a text that no later bracket closes
RECURSIVE Unmatched(_, _)
Unmatched(text, depth) ==
    IF text = <<>> THEN depth
    ELSE IF Head(text) = "(" THEN Unmatched(Tail(text), depth + 1)
    ELSE IF Head(text) = ")" /\ depth > 0 THEN Unmatched(Tail(text), depth - 1)
    ELSE Unmatched(Tail(text), depth)

\* the key and the value of each parameter of a sequence
KeyValues(params) ==
    [i \in 1..Len(params) |-> <<params[i].key, params[i].value>>]

----------------------------------------------------------------------------
(* C1: a comma consumed by the parameter-list parser while an open bracket *)
(* of the current parameter is still unmatched does not split the list:    *)
(* the number of stored parameters is unchanged and the comma is appended  *)
(* to the current value, at any nesting depth.                             *)
C1_CommaInBracketsNeverSplits ==
    [][(/\ pc = "parse_params"
        /\ pc' = "parse_params"
        /\ consumed' = Append(consumed, COMMA)
        /\ Unmatched(cur_param.value, 0) > 0)
       => (/\ Len(positional_params') + Len(keyword_params') = NumParams
           /\ cur_param'.value = Append(cur_param.value, ","))]_vars

(* C2: constructing a NoKeywordParamList runs the generic parse (so the    *)
(* header is pulled from the cursor) and ends without error, with the      *)
(* key/value-not-accepted error exactly when a keyed parameter was parsed, *)
(* or with an error of the generic parse.                                  *)
C2_NoKeywordParamListRunsParse ==
    (kind = "NoKeywordParamList" /\ Terminal) =>
        /\ consumed # <<>>
        /\ error.type \in {"None", "InvalidParameterSyntax", "NoParametersError",
                           "NamedKeywordError", "SyntaxError", "StopIteration"}
        /\ pc = "done" => (LoopEnded /\ keyword_params = <<>> /\ positional_params # <<>>)
        /\ (LoopEnded /\ keyword_params # <<>>) =>
               error = Raise("InvalidParameterSyntax", "does not accept key/value parameters")

(* C3: constructing a SingleParam succeeds exactly when the generic parse  *)
(* ends with one positional and no keyed parameter; with more than one     *)
(* parameter it raises TooManyParameters (also when one of them is keyed), *)
(* with exactly one, keyed, parameter it raises InvalidParameter.          *)
C3_SingleParam ==
    (kind = "SingleParam" /\ Terminal) =>
        /\ pc = "done" <=> (/\ LoopEnded
                            /\ Len(positional_params) = 1
                            /\ Len(keyword_params) = 0)
        /\ (LoopEnded /\ NumParams > 1) => error.type = "TooManyParameters"
        /\ (LoopEnded /\ NumParams = 1 /\ Len(keyword_params) = 1)
               => error.type = "InvalidParameter"

C3_Witness ==
    /\ kind = "SingleParam"
    /\ LoopEnded
    /\ error.type = "TooManyParameters"
    /\ Len(keyword_params) >= 1

(* C4: the indentation depth counter of a parser is never negative.        *)
C4_IndentNonNegative == cur_indent >= 0

(* C5: an add_processed_keyword call whose keyword identity is already in  *)
(* processed_keywords raises DuplicateKeyWordError and leaves the set      *)
(* unchanged; a call with a new identity does not raise and adds exactly   *)
(* that identity.                                                          *)
C5_DuplicateKeyword ==
    [][(pc = "ready" /\ call'.op = "add_processed_keyword") =>
         LET id == IF call'.keyword = <<>> THEN <<call'.token.string>>
                   ELSE call'.keyword
         IN IF id \in processed_keywords
            THEN /\ error'.type = "DuplicateKeyWordError"
                 /\ processed_keywords' = processed_keywords
            ELSE /\ error' = NoError
                 /\ processed_keywords' = processed_keywords \cup {id}]_vars

C5_Witness ==
    /\ call.op = "add_processed_keyword"
    /\ error.type = "DuplicateKeyWordError"
    /\ Cardinality(processed_keywords) = 2
    /\ call.keyword = <<"input">>

(* C6: a parameter-list parse raises NoParametersError exactly when its    *)
(* loop has ended with no positional and no keyed parameter; a completed   *)
(* construction holds at least one parameter; a list that is left by the   *)
(* exit condition after only line breaks, indents, dedents and comments    *)
(* raises NoParametersError.                                               *)
C6_NoParameters ==
    (kind \in {"ParameterSyntax", "SingleParam"} /\ Terminal) =>
        /\ error.type = "NoParametersError"
             <=> (LoopEnded /\ positional_params = <<>> /\ keyword_params = <<>>)
        /\ pc = "done" => NumParams >= 1
        /\ (/\ ExitTaken
            /\ \A i \in 2..(Len(consumed) - 1) :
                 consumed[i].type \in {"NEWLINE", "NL", "INDENT", "DEDENT",
                                       "COMMENT", "ENDMARKER"})
             => error.type = "NoParametersError"

C6_Witness ==
    /\ kind = "ParameterSyntax"
    /\ error.type = "NoParametersError"
    /\ ExitTaken
    /\ ~eof
    /\ \E i \in 2..(Len(consumed) - 1) : consumed[i] = DEDENT

----------------------------------------------------------------------------
(* A bracket-free parameter list as the source writes it: items separated  *)
(* by commas, each a bare value token or  NAME = value token.              *)

ValueTypes == {"NAME", "STRING", "NUMBER"}
LineTypes == {"NEWLINE", "NL", "INDENT", "DEDENT", "ENDMARKER"}

Item(k, v) == <<k, v>>

\* the items of a token list, in order; ok is FALSE when it is no such list
RECURSIVE ReadItems(_)
ReadItems(l) ==
    LET keyed == /\ Len(l) >= 3
                 /\ l[1].type = "NAME"
                 /\ l[2] = EQUAL
                 /\ l[3].type \in ValueTypes
        bare == Len(l) >= 1 /\ l[1].type \in ValueTypes
        item == IF keyed THEN Item(<<l[1].string>>, <<l[3].string>>)
                ELSE Item(<<>>, <<l[1].string>>)
        rest == IF keyed THEN SubSeq(l, 4, Len(l)) ELSE SubSeq(l, 2, Len(l))
    IN
    IF ~keyed /\ ~bare THEN [ok |-> FALSE, items |-> <<>>]
    ELSE IF rest = <<>> THEN [ok |-> TRUE, items |-> <<item>>]
    ELSE IF rest[1] # COMMA THEN [ok |-> FALSE, items |-> <<>>]
    ELSE LET more == ReadItems(Tail(rest)) IN
         [ok |-> more.ok, items |-> <<item>> \o more.items]

\* a token list that is an item list followed only by line structure
ReadList(l) ==
    LET ends == {i \in 1..Len(l) : l[i].type \in LineTypes}
        k == IF ends = {} THEN Len(l) + 1
             ELSE CHOOSE i \in ends : \A j \in ends : i <= j
        r == ReadItems(SubSeq(l, 1, k - 1))
    IN [ok |-> r.ok /\ \A i \in k..Len(l) : l[i].type \in LineTypes,
        items |-> r.items]

\* the tokens of the list itself: all but a token that took the exit
ListTokens ==
    IF eof \/ ~ExitTaken THEN Body ELSE SubSeq(Body, 1, Len(Body) - 1)

(* C7: for a bracket-free list of comma-separated items, each a bare value *)
(* or key = value, the parse ends with the bare items, in source order, as *)
(* the positional parameters and the keyed items, in source order, as the  *)
(* keyword parameters, each with the item's key and value; no such list    *)
(* makes the parse raise.                                                  *)
C7_ItemsInSourceOrder ==
    (kind \in {"ParameterSyntax", "SingleParam"} /\ Terminal /\ Len(consumed) >= 2
       /\ ReadList(ListTokens).ok) =>
        LET items == ReadList(ListTokens).items IN
        /\ LoopEnded
        /\ kind = "ParameterSyntax" => pc = "done"
        /\ KeyValues(positional_params) = SelectSeq(items, LAMBDA it : it[1] = <<>>)
        /\ KeyValues(keyword_params) = SelectSeq(items, LAMBDA it : it[1] # <<>>)

C7_Witness ==
    /\ kind = "ParameterSyntax"
    /\ pc = "done"
    /\ consumed = <<COLON, Name("x"), EQUAL, Number("1"), COMMA, Name("y"),
                    EQUAL, Number("2"), NEWLINE>>
    /\ KeyValues(keyword_params) = <<Item(<<"x">>, <<"1">>), Item(<<"y">>, <<"2">>)>>
    /\ positional_params = <<>>

(* C8: once a keyword block has been constructed over a cursor, with or    *)
(* without a parent, keyword_name is the keyword (with the name, when one  *)
(* was read) and the cursor is exactly after the header line's newline.    *)
C8_HeaderLeavesCursorAfterNewline ==
    (kind = "KeywordSyntax" /\ call.op = "KeywordSyntax" /\ pc = "ready"
       /\ snakefile) =>
        /\ keyword_name = IF consumed[1].type = "NAME"
                          THEN call.keyword \o <<" ", consumed[1].string>>
                          ELSE call.keyword
        /\ consumed[Len(consumed)] = NEWLINE
        /\ token = NEWLINE

(* C9: when the first token after the keyword is no colon, a nameable      *)
(* keyword followed by a token that is no name raises NamedKeywordError, a *)
(* keyword that is not nameable raises SyntaxError (colon expected), and a *)
(* nameable keyword followed by a name and then by a token that is no      *)
(* colon raises SyntaxError (colon expected); a construction that          *)
(* completes has read a colon as the last token of its header.             *)
C9_HeaderErrors ==
    (kind = "KeywordSyntax" /\ call.op = "KeywordSyntax" /\ snakefile
       /\ consumed # <<>>) =>
        LET first == consumed[1]
            nameable == call.keyword[1] \in {"rule", "checkpoint"}
            colon(t) == t = COLON
            named == nameable /\ ~colon(first) /\ first.type = "NAME"
        IN
        /\ (~colon(first) /\ nameable /\ first.type # "NAME")
             => error.type = "NamedKeywordError"
        /\ (~colon(first) /\ ~nameable)
             => error = Raise("SyntaxError", "Colon expected")
        /\ (named /\ Len(consumed) >= 2 /\ ~colon(consumed[2]))
             => error = Raise("SyntaxError", "Colon expected")
        /\ pc = "ready" => colon(consumed[IF named THEN 2 ELSE 1])

C9_Witness ==
    /\ kind = "KeywordSyntax"
    /\ call.op = "KeywordSyntax"
    /\ Len(consumed) = 2
    /\ consumed[1].type = "NAME"
    /\ consumed[2] # COLON
    /\ error = Raise("SyntaxError", "Colon expected")

(* C10: once an assignment operator has given the current parameter a key, *)
(* no later token of the same parameter changes that key.                  *)
C10_KeyPromotedOnce ==
    [][(/\ pc = "parse_params"
        /\ has_key(cur_param)
        /\ has_key(cur_param'))
       => cur_param'.key = cur_param.key]_vars


----------------------------------------------------------------------------
\* the parameters stored so far, positional then keyed
AllParams == positional_params \o keyword_params

\* a step of parse_params' loop that pulls a token
Pulls == pc = "parse_params" /\ Len(consumed') = Len(consumed) + 1

Pulled == consumed'[Len(consumed')]

\* p is the parameter stored last in the sequence seq
IsLast(p, seq) == seq # <<>> /\ seq[Len(seq)] = p

\* the errors raised once parse_params' loop has ended
EndErrors == {"NoParametersError", "TooManyParameters", "InvalidParameter"}

(* C11: check_empty raises EmptyContextError when processed_keywords is    *)
(* empty, whether or not the block was built with a token cursor, and does *)
(* not raise once a child keyword has been registered.                     *)
C11_CheckEmpty ==
    (call.op = "check_empty") =>
        IF processed_keywords = {}
        THEN error.type = "EmptyContextError"
        ELSE error = NoError

(* C12: parse_params stops at the first pulled token that is significant,  *)
(* comes after a line break and is seen at a depth below the target: the   *)
(* current parameter is flushed (dropped when its value is empty), no      *)
(* token is pulled after it and eof stays false; a token pulled before     *)
(* does not end the loop.                                                  *)
C12_ExitCondition ==
    [][Pulls =>
         IF found_newline /\ not_to_ignore(Pulled) /\ cur_indent < target_indent
         THEN /\ pc' \in {"done", "error"}
              /\ error'.type \in {"None"} \cup EndErrors
              /\ ~eof'
              /\ token' = Pulled
              /\ Len(positional_params') + Len(keyword_params')
                   = NumParams + (IF cur_param.value = <<>> THEN 0 ELSE 1)
              /\ cur_param.value # <<>> =>
                   \/ IsLast(cur_param, positional_params')
                   \/ IsLast(cur_param, keyword_params')
         ELSE /\ pc' # "done"
              /\ error'.type \notin EndErrors]_vars

C12_Witness ==
    /\ kind = "ParameterSyntax"
    /\ pc = "done"
    /\ ~eof
    /\ ExitTaken
    /\ NumParams = 2
    /\ consumed[Len(consumed)].type = "NAME"

(* C13: a comma outside brackets stores the current parameter even when    *)
(* its value is empty; a parameter with an empty value is dropped only by  *)
(* the flush that ends the list (end of input or the exit condition).      *)
C13_EmptyParameterKept ==
    [][pc = "parse_params" =>
         /\ (/\ Pulls
             /\ Pulled = COMMA
             /\ Unmatched(cur_param.value, 0) = 0
             /\ ~(found_newline /\ cur_indent < target_indent))
              => /\ pc' = "parse_params"
                 /\ Len(positional_params') + Len(keyword_params') = NumParams + 1
                 /\ \/ IsLast(cur_param, positional_params')
                    \/ IsLast(cur_param, keyword_params')
         /\ (/\ pc' \in {"done", "error"}
             /\ error'.type \in {"None"} \cup EndErrors
             /\ cur_param.value = <<>>)
              => /\ positional_params' = positional_params
                 /\ keyword_params' = keyword_params]_vars

C13_Witness ==
    /\ pc = "done"
    /\ eof
    /\ Len(positional_params) = 3
    /\ positional_params[2].value = <<>>
    /\ positional_params[3].value # <<>>


----------------------------------------------------------------------------
\* a step of get_next_queriable's loop that pulls a token
PullsKw == pc = "get_next_queriable" /\ Len(consumed') = Len(consumed) + 1

\* the step returns a Status
Returns == pc = "get_next_queriable" /\ pc' = "ready"

(* C14: get_next_queriable yields a name only while queriable is true and  *)
(* clears the flag with the yield; the flag becomes true again only when a *)
(* NEWLINE token is consumed, so a NEWLINE is consumed between two yields  *)
(* of a name.                                                              *)
C14_OneYieldPerLine ==
    [][pc # "new" =>
         /\ (Returns /\ ~status'.eof)
              => (queriable /\ ~queriable' /\ status'.token.type = "NAME")
         /\ (~queriable /\ queriable')
              => (PullsKw /\ Pulled.type = "NEWLINE")]_vars

C14_Witness ==
    /\ pc = "ready"
    /\ call.op = "get_next_queriable"
    /\ ~status.eof
    /\ status.token.type = "NAME"
    /\ status.buffer = <<" ", "a", "\n">>
    /\ ~queriable

(* C15: get_next_queriable returns a Status that is not eof exactly for a  *)
(* NAME token pulled while cur_indent <= target_indent and queriable is    *)
(* true, so its indent is at most target_indent; an indent or dedent only  *)
(* adjusts the depth (never below zero), an end marker returns a Status    *)
(* with eof true and the buffer accumulated so far without raising, and    *)
(* the text of any other token is added to the buffer.                     *)
C15_YieldsAndSwallows ==
    [][PullsKw =>
         LET t == Pulled
             yields == t.type = "NAME" /\ cur_indent <= target_indent /\ queriable
         IN
         /\ error' = NoError
         /\ (Returns /\ ~status'.eof) <=> yields
         /\ yields => /\ status'.token = t
                      /\ status'.indent = cur_indent
                      /\ status'.indent <= target_indent
         /\ t.type = "ENDMARKER"
              => (Returns /\ status'.eof /\ status'.buffer = buffer /\ status'.token = t)
         /\ Returns => (yields \/ t.type = "ENDMARKER")
         /\ t.type = "INDENT" => (cur_indent' = cur_indent + 1 /\ buffer' = buffer)
         /\ t.type = "DEDENT"
              => (cur_indent' = Max(cur_indent - 1, 0) /\ buffer' = buffer)
         /\ t.type \notin {"INDENT", "DEDENT"} => cur_indent' = cur_indent
         /\ (~Returns /\ t.type \notin {"INDENT", "DEDENT"})
              => (buffer' # <<>> /\ buffer'[Len(buffer')] = t.string)]_vars

C15_Witness ==
    /\ pc = "ready"
    /\ status.eof
    /\ status.token = ENDMARKER
    /\ status.buffer # <<>>
    /\ error = NoError


----------------------------------------------------------------------------
\* the token types process_token handles before it looks at the value
StructureTypes == {"INDENT", "DEDENT", "NEWLINE", "NL", "COMMENT", "ENDMARKER"}

(* C16: when process_token is about to append a value token (no indent,    *)
(* dedent, line break, comment or end marker, and no comma or equals sign  *)
(* outside brackets) and the current value is exactly one unit that is a   *)
(* reserved word of the vocabulary, the parse raises                       *)
(* InvalidParameterSyntax (over-indented keyword) and the value is left as *)
(* it is; otherwise the token's text is appended to the value.             *)
C16_OverIndentedKeyword ==
    [][(/\ Pulls
        /\ ~(found_newline /\ not_to_ignore(Pulled) /\ cur_indent < target_indent)
        /\ Pulled.type \notin StructureTypes
        /\ ~(Pulled \in {COMMA, EQUAL} /\ ~in_brackets))
       => IF \E w \in Vocabulary : cur_param.value = <<w>>
          THEN /\ pc' = "error"
               /\ error' = Raise("InvalidParameterSyntax",
                                 "Over-indented recognised keyword found")
               /\ cur_param'.value = cur_param.value
          ELSE /\ pc' = "parse_params"
               /\ error' = NoError
               /\ cur_param'.value # <<>>
               /\ cur_param'.value[Len(cur_param'.value)] = Pulled.string
               /\ Len(cur_param'.value) \in {Len(cur_param.value) + 1,
                                             Len(cur_param.value) + 2}
               /\ IsPrefix(cur_param.value, cur_param'.value)]_vars

C16_Witness ==
    /\ pc = "error"
    /\ error = Raise("InvalidParameterSyntax", "Over-indented recognised keyword found")
    /\ cur_param.value = <<"input">>
    /\ consumed[Len(consumed)] = STR

(* C17: when a child block's header is read under a parent and the token   *)
(* after the colon (and the optional comment) is no newline, construction  *)
(* fails with the newline-expected SyntaxError and the child's identity is *)
(* not registered in the parent's processed_keywords.                      *)
C17_ParentUnchangedOnNewlineError ==
    (/\ kind = "KeywordSyntax"
     /\ call.op = "KeywordSyntax"
     /\ incident_context.present
     /\ error = Raise("SyntaxError", "Newline expected"))
      => keyword_name \notin incident_context.processed_keywords

(* C18: with target_indent >= 1 and a value that starts on the keyword's   *)
(* own line (no indent or dedent pulled, and the line breaks are the NL of *)
(* a bracketed expression), the exit condition never ends the parameter    *)
(* list while in_brackets is true.                                         *)
C18_NoExitInsideBrackets ==
    (/\ kind \in {"ParameterSyntax", "SingleParam"}
     /\ Terminal
     /\ ExitTaken
     /\ ~eof
     /\ target_indent >= 1
     /\ \A i \in 1..Len(consumed) :
            consumed[i].type \notin {"INDENT", "DEDENT", "NEWLINE"})
      => ~in_brackets

\* the comments of the parameters of a sequence, in order
RECURSIVE CommentsOf(_)
CommentsOf(params) ==
    IF params = <<>> THEN <<>>
    ELSE Head(params).comments \o CommentsOf(Tail(params))

(* C19: when a parameter-list parse completes without error, the comments  *)
(* of its positional and keyed parameters are as many as the comment       *)
(* tokens it consumed: no comment is lost.                                 *)
C19_NoCommentLost ==
    (kind = "ParameterSyntax" /\ pc = "done") =>
        Len(CommentsOf(positional_params)) + Len(CommentsOf(keyword_params))
          = Len(SelectSeq(consumed, LAMBDA t : t.type = "COMMENT"))

(* C20: every parameter stored in keyword_params has a key and every       *)
(* parameter stored in positional_params has none; a step stores at most   *)
(* one parameter, in one of the two sequences, and leaves the parameters   *)
(* already stored where they are.                                          *)
C20_StoredParameters ==
    [][/\ \A i \in 1..Len(keyword_params') : keyword_params'[i].key # <<>>
       /\ \A i \in 1..Len(positional_params') : positional_params'[i].key = <<>>
       /\ IsPrefix(positional_params, positional_params')
       /\ IsPrefix(keyword_params, keyword_params')
       /\ Len(positional_params') + Len(keyword_params') \in {NumParams, NumParams + 1}
       /\ NumParams' > NumParams =>
            \/ IsLast(cur_param, positional_params') /\ keyword_params' = keyword_params
            \/ IsLast(cur_param, keyword_params') /\ positional_params' = positional_params]_vars

C20_Witness ==
    /\ pc = "done"
    /\ Len(positional_params) >= 1
    /\ Len(keyword_params) >= 1
    /\ keyword_params[1].value # <<>>

====
